---- MODULE Spec2Model ----
(***************************************************************************)
(* State-machine model of package run (helloworlddan/run):                  *)
(*   - the client registry: Client, LazyClient, UseClient, ListClientNames, *)
(*     CountClients, ResetClients over the package-level map `clients`;     *)
(*   - the serve orchestration: ServeHTTP, ServeGRPC and                    *)
(*     Service.ListenAndServe.                                              *)
(* Goroutines interleave at every access to shared state.  A map write is   *)
(* an interval (begin, commit); a map read is one step.  The package holds  *)
(* no lock around the map, so an access may fall inside another            *)
(* goroutine's write interval: the Go runtime may then throw ("concurrent   *)
(* map read and map write", "concurrent map writes") or let the access      *)
(* through, and the model branches over these outcomes.                     *)
(***************************************************************************)
EXTENDS Integers, Sequences, FiniteSets, TLC

(* ------------------------------ bounds --------------------------------- *)

\* Number of goroutines calling into the registry concurrently.
NumGoroutines == 2

\* Largest number of requests in flight at the served port.
MaxRequests == 2

(* ------------------------------ inputs --------------------------------- *)

Goroutines == 1..NumGoroutines

\* Client names used as inputs.
Names == {"a", "b"}

\* The untyped nil held by a lazy entry's clientPtr before initialization.
NilValue == "nil"

\* Client values: two pointers of one type, and one value that is no pointer.
Values == {"a1", "a2", "i42"}

\* The type parameter T of UseClient[T], given by the hint argument.
Hints == {"PtrA", "PtrB", "Int", "Str"}

\* Dynamic type of a stored value.
TypeOf(v) ==
    CASE v \in {"a1", "a2"} -> "PtrA"
      [] v = "i42" -> "Int"
      [] OTHER -> "untyped nil"

\* Initializers handed to LazyClient: none (nil func), one that calls
\* Client(name, InitValue) for its own name, one that registers nothing.
Initializers == {"nil", "reg", "noreg"}

\* The value the registering initializer hands to Client.
InitValue == "a1"

(* ------------------------------ errors --------------------------------- *)

NoError == "nil error"
ErrExpectedPointer == "expected pointer to client"
ErrNotFound == "no client found for name"
ErrUninitializable == "cannot initialize client"
ErrTypeMismatch == "failed to cast stored client to requested type"
\* Not an error value: the call did not return (nil func call in Once.Do).
Panic == "panic: nil pointer dereference"
ErrThrow == "fatal error: concurrent map read and map write"

(* ------------------------------- state --------------------------------- *)

VARIABLES
    clients,    \* the package variable: [isNil, m], m : Names -> entry
    once,       \* state of each entry's sync.Once, by entry identity
    runs,       \* how often each entry's initializer has been invoked
    pc,         \* position of each goroutine inside its registry call
    cur,        \* locals of each goroutine's call in progress
    ret,        \* the return made by the step just taken, if it made one
    raced,      \* the step just taken touched the map inside another write
    crashed,    \* the process died: panic, or the runtime threw
    kind,       \* which orchestration call runs
    mpc,        \* position of the orchestration call
    bpc,        \* position of the background serve goroutine
    portBusy,   \* the port is already occupied by someone else
    listener,   \* the listener of this call
    srv,        \* the server object's state
    berr,       \* the error the serve goroutine is about to report
    errChan,    \* buffered channel of capacity one
    sigChan,    \* buffered channel of capacity one
    inflight,   \* requests being handled
    expired,    \* the 10 s context has passed its deadline
    hookCalls,  \* invocations of the shutdown hook
    result,     \* what the orchestration call returned
    exited,     \* log.Fatalf has ended the process
    seen,       \* what has happened during the orchestration call
                \* ("latefail": a serve failure after the signal branch,
                \* "extclose": the server was shut down from outside)
    config,     \* the package variable of the config store: [isNil, m]
    env,        \* the process environment, by variable name
    servicePort, \* this.servicePort: the cached port of the metadata cache
    addr,       \* the address the served listener binds
    logged,     \* severity of the log entry emitted last
    uret        \* the return made by the config / port / log call that was
                \* the last step to touch this package state

regVars == <<clients, once, runs, pc, cur, ret, raced, crashed>>
srvVars == <<kind, mpc, bpc, portBusy, listener, srv, berr, errChan, sigChan,
             inflight, expired, hookCalls, result, exited, seen>>
pkgVars == <<config, env, servicePort, addr, logged, uret>>
vars == <<regVars, srvVars, pkgVars>>

(* ------------------------- registry: entries --------------------------- *)

\* Identities of the lazyClient objects whose Once can be asked to run a
\* function, i.e. those registered with an initializer: at most one per name
\* in the map and one per goroutine (the entry it looked up or is storing).
\* An entry without initializer carries identity 0: its Once is never used.
Pool == 1..(Cardinality(Names) + NumGoroutines)

\* Absent map slot: the lookup's ok is false.
NoEntry ==
    [ok |-> FALSE, id |-> 0, clientPtr |-> NilValue, lazyInitialize |-> "nil",
     initialized |-> FALSE]

\* make(map[string]*lazyClient)
EmptyMap == [n \in Names |-> NoEntry]

\* &lazyClient{client, nil, &sync.Once{}, true}
ClientEntry(client) ==
    [ok |-> TRUE, id |-> 0, clientPtr |-> client, lazyInitialize |-> "nil",
     initialized |-> TRUE]

\* &lazyClient{nil, init, &sync.Once{}, false}
LazyEntry(id, init) ==
    [ok |-> TRUE, id |-> IF init = "nil" THEN 0 ELSE id,
     clientPtr |-> NilValue, lazyInitialize |-> init, initialized |-> FALSE]

\* Locals of a goroutine that is in no registry call.
IdleCur ==
    [op |-> "none", name |-> "a", hint |-> "none", lc |-> NoEntry,
     pending |-> NoEntry]

\* The step just taken returned from no call.
NoRet ==
    [g |-> 0, op |-> "none", name |-> "a", arg |-> "none", err |-> NoError,
     val |-> NilValue, count |-> 0, names |-> <<>>, lc |-> NoEntry,
     inits |-> 0]

\* Entry identities referenced from map c or from the goroutines' locals cu.
LiveIn(c, cu) ==
    {c.m[n].id : n \in Names}
        \cup {cu[g].lc.id : g \in Goroutines}
        \cup {cu[g].pending.id : g \in Goroutines}

\* Identity of a freshly allocated entry.
NewId ==
    CHOOSE i \in Pool \ LiveIn(clients, cur) :
        \A j \in Pool \ LiveIn(clients, cur) : i <= j

\* The Once states o and invocation counts r become the next state's, and
\* the objects no longer referenced after the step are forgotten.
Collect(o, r) ==
    /\ once' = [i \in Pool |->
            IF i \in LiveIn(clients', cur') THEN o[i] ELSE "new"]
    /\ runs' = [i \in Pool |->
            IF i \in LiveIn(clients', cur') THEN r[i] ELSE 0]

\* An ensureInitClients that makes a new map on every call.
ensureInitClientsAlways == [isNil |-> FALSE, m |-> EmptyMap]

\* ensureInitClients(): a nil map is replaced by an empty one.
ensureInitClients ==
    IF clients.isNil THEN [isNil |-> FALSE, m |-> EmptyMap] ELSE clients

\* A check that takes every hint for a pointer.
isPointerAlways(T) == TRUE

\* reflect.ValueOf(a).Kind() == reflect.Ptr, on the hint's type.
isPointer(T) == T \in {"PtrA", "PtrB"}

\* A type assertion that never fails.
CastAlways(v, T) == TRUE

\* lc.clientPtr.(T): the type assertion succeeds on an identical dynamic type.
CastOk(v, T) == TypeOf(v) = T

\* Goroutines inside a map write (between begin and commit).
Writers == {g \in Goroutines : pc[g] \in {"write", "init_write"}}

\* An access by g falls inside another goroutine's write.
Racy(g) == Writers \ {g} # {}

\* The process still runs.
Alive == ~crashed

\* What a read of clients[n] by g can yield: the slot as it is, or, inside
\* another goroutine's write of the same name, the entry being stored.
ReadOutcomes(g, n) ==
    {ensureInitClients.m[n]}
        \cup {cur[w].pending : w \in {x \in Writers \ {g} : cur[x].name = n}}

\* The runtime's throw on a detected concurrent map access ends the process.
Throw(g, op, n) ==
    /\ Racy(g)
    /\ crashed' = TRUE
    /\ raced' = TRUE
    /\ ret' = [NoRet EXCEPT !.g = g, !.op = op, !.name = n, !.err = ErrThrow]
    /\ UNCHANGED <<clients, once, runs, pc, cur>>

\* The names registered in map c.
Registered(c) == {n \in Names : c.m[n].ok}

(* ------------------------- registry: operations ------------------------ *)

\* ResetClients(): the map is replaced.  Callers synchronize it themselves:
\* it runs only while no other registry call is in progress.
CallResetClients(g) ==
    /\ Alive
    /\ \A h \in Goroutines : pc[h] = "idle"
    /\ clients' = [isNil |-> FALSE, m |-> EmptyMap]
    /\ ret' = [NoRet EXCEPT !.g = g, !.op = "ResetClients"]
    /\ raced' = FALSE
    /\ UNCHANGED <<pc, cur, crashed>>
    /\ Collect(once, runs)
    /\ UNCHANGED <<srvVars, pkgVars>>

\* A length that counts the initialized entries only.
MapLenInitialized(c) ==
    Cardinality({n \in Names : c.m[n].ok /\ c.m[n].initialized})

\* len(clients): the number of keys of the map.
MapLen(c) == Cardinality(Registered(c))

\* CountClients(): len(clients).
CallCountClients(g) ==
    /\ Alive
    /\ pc[g] = "idle"
    /\ \/ Throw(g, "CountClients", "a")
       \/ /\ clients' = ensureInitClients
          /\ ret' = [NoRet EXCEPT !.g = g, !.op = "CountClients",
                !.count = MapLen(ensureInitClients)]
          /\ raced' = Racy(g)
          /\ UNCHANGED <<once, runs, pc, cur, crashed>>
    /\ UNCHANGED <<srvVars, pkgVars>>

\* The collected names left in an order that is not ascending.
NamesUnsorted(S) ==
    IF S = {} THEN <<>>
    ELSE IF S = {"a", "b"} THEN <<"b", "a">>
    ELSE <<CHOOSE x \in S : TRUE>>

RECURSIVE SortedSeq(_)
\* slices.Sort over the collected names ("a" sorts before "b").
SortedSeq(S) ==
    IF S = {} THEN <<>>
    ELSE LET least == CHOOSE x \in S : \A y \in S : x = y \/ x = "a"
         IN <<least>> \o SortedSeq(S \ {least})

\* ListClientNames(): the keys of the map, sorted.
CallListClientNames(g) ==
    /\ Alive
    /\ pc[g] = "idle"
    /\ \/ Throw(g, "ListClientNames", "a")
       \/ /\ clients' = ensureInitClients
          /\ ret' = [NoRet EXCEPT !.g = g, !.op = "ListClientNames",
                !.names = SortedSeq(Registered(ensureInitClients))]
          /\ raced' = Racy(g)
          /\ UNCHANGED <<once, runs, pc, cur, crashed>>
    /\ UNCHANGED <<srvVars, pkgVars>>

\* The store clients[name] = e begins: the new object is allocated and the
\* map is being written until the commit.
BeginStore(g, e, c, next) ==
    \/ Throw(g, c.op, c.name)
    \/ /\ clients' = ensureInitClients
       /\ cur' = [cur EXCEPT ![g] = [c EXCEPT !.pending = e]]
       /\ pc' = [pc EXCEPT ![g] = next]
       /\ ret' = NoRet
       /\ raced' = Racy(g)
       /\ UNCHANGED <<once, runs, crashed>>

\* Client(name, client), up to the start of the map store.
CallClient(g, n, v) ==
    /\ Alive
    /\ pc[g] = "idle"
    /\ BeginStore(g, ClientEntry(v),
            [IdleCur EXCEPT !.op = "Client", !.name = n, !.hint = v], "write")
    /\ UNCHANGED <<srvVars, pkgVars>>

\* LazyClient(name, init), up to the start of the map store.
CallLazyClient(g, n, f) ==
    /\ Alive
    /\ pc[g] = "idle"
    /\ BeginStore(g, LazyEntry(NewId, f),
            [IdleCur EXCEPT !.op = "LazyClient", !.name = n, !.hint = f],
            "write")
    /\ UNCHANGED <<srvVars, pkgVars>>

\* A store that keeps the entry a name already has.
MapAssignKeep(old, new) == IF old.ok THEN old ELSE new

\* A store that gives the new entry the opposite of the replaced entry's
\* initialized flag.
MapAssignFlip(old, new) ==
    IF old.ok THEN [new EXCEPT !.initialized = ~old.initialized] ELSE new

\* A store that deletes the key when the name is already registered.
MapAssignDelete(old, new) == IF old.ok THEN NoEntry ELSE new

\* clients[name] = new: the assignment replaces whatever the slot held.
MapAssign(old, new) == new

\* The map store of Client / LazyClient commits and the call returns.
FinishStore(g) ==
    /\ Alive
    /\ pc[g] = "write"
    /\ clients' = [clients EXCEPT !.m[cur[g].name] =
                        MapAssign(@, cur[g].pending)]
    /\ ret' = [NoRet EXCEPT !.g = g, !.op = cur[g].op, !.name = cur[g].name,
            !.arg = cur[g].hint]
    /\ cur' = [cur EXCEPT ![g] = IdleCur]
    /\ pc' = [pc EXCEPT ![g] = "idle"]
    /\ raced' = FALSE
    /\ crashed' = crashed
    /\ Collect(once, runs)
    /\ UNCHANGED <<srvVars, pkgVars>>

\* A UseClient that does not check that the name is known.
LookupErrorNoFoundCheck(lc) ==
    IF ~lc.initialized /\ lc.lazyInitialize = "nil" THEN ErrUninitializable
    ELSE NoError

\* A UseClient that does not check that the entry can be initialized.
LookupErrorNoInitCheck(lc) ==
    IF ~lc.ok THEN ErrNotFound ELSE NoError

\* The checks UseClient makes on the looked-up entry lc before it
\* initializes: the name is known, and the entry can be initialized.
LookupError(lc) ==
    IF ~lc.ok THEN ErrNotFound
    ELSE IF ~lc.initialized /\ lc.lazyInitialize = "nil"
        THEN ErrUninitializable
    ELSE NoError

\* A UseClient call returns (value, err).  The return is recorded with the
\* entry lc that was registered under the name when the call looked it up,
\* and with the number of times that entry's initializer has been invoked.
UseReturn(g, n, T, err, v, lc) ==
    /\ ret' = [NoRet EXCEPT !.g = g, !.op = "UseClient", !.name = n,
            !.arg = T, !.err = err, !.val = v, !.lc = lc,
            !.inits = IF lc.id = 0 THEN 0 ELSE runs[lc.id]]
    /\ cur' = [cur EXCEPT ![g] = IdleCur]
    /\ pc' = [pc EXCEPT ![g] = "idle"]

\* UseClient, from entry to the decision to initialize: the pointer check,
\* the lookup clients[name], and the check that the entry can be initialized.
UseLookup(g, n, T, lc) ==
    IF ~isPointer(T)
        THEN UseReturn(g, n, T, ErrExpectedPointer, NilValue, lc)
    ELSE IF LookupError(lc) # NoError
        THEN UseReturn(g, n, T, LookupError(lc), NilValue, lc)
    ELSE /\ cur' = [cur EXCEPT ![g] =
                [IdleCur EXCEPT !.op = "UseClient", !.name = n, !.hint = T,
                    !.lc = lc]]
         /\ pc' = [pc EXCEPT ![g] = "do"]
         /\ ret' = NoRet

CallUseClient(g, n, T) ==
    /\ Alive
    /\ pc[g] = "idle"
    /\ \/ isPointer(T) /\ Throw(g, "UseClient", n)
       \/ /\ clients' = ensureInitClients
          /\ \E lc \in (IF isPointer(T) THEN ReadOutcomes(g, n)
                         ELSE {ensureInitClients.m[n]}) :
                UseLookup(g, n, T, lc)
          /\ raced' = (isPointer(T) /\ Racy(g))
          /\ crashed' = crashed
          /\ Collect(once, runs)
    /\ UNCHANGED <<srvVars, pkgVars>>

\* One Once shared by all entries: busy while any initializer runs.
OnceBusyGlobal(id) == \E i \in Pool : once[i] = "running"

\* A Do on the Once of entry id has to wait: that entry's Once is running f.
OnceBusy(id) == once[id] = "running"

\* lc.clientOnce.Do(lc.lazyInitialize): returns at once when the Once is
\* done, blocks while another goroutine runs it, else runs f.  A nil f is a
\* nil func call: it panics, and nothing in the package recovers.
OnceDo(g) ==
    LET id == cur[g].lc.id
        f == cur[g].lc.lazyInitialize
    IN  IF f = "nil"
        THEN /\ crashed' = TRUE
             /\ UseReturn(g, cur[g].name, cur[g].hint, Panic, NilValue,
                    cur[g].lc)
             /\ UNCHANGED <<clients, once, runs>>
        ELSE /\ ~OnceBusy(id)
             /\ IF once[id] = "done"
                THEN /\ pc' = [pc EXCEPT ![g] = "refresh"]
                     /\ UNCHANGED <<once, runs>>
                ELSE /\ pc' = [pc EXCEPT ![g] = "init"]
                     /\ once' = [once EXCEPT ![id] = "running"]
                     /\ runs' = [runs EXCEPT ![id] = @ + 1]
             /\ ret' = NoRet
             /\ UNCHANGED <<clients, cur, crashed>>

\* UseClient's initialization step: Do is called only with an initializer.
UseInitialize(g) ==
    /\ Alive
    /\ pc[g] = "do"
    /\ IF cur[g].lc.lazyInitialize # "nil"
       THEN OnceDo(g)
       ELSE /\ pc' = [pc EXCEPT ![g] = "refresh"]
            /\ ret' = NoRet
            /\ UNCHANGED <<clients, once, runs, cur, crashed>>
    /\ raced' = FALSE
    /\ UNCHANGED <<srvVars, pkgVars>>

\* The earlier revision of UseClient calls Do unconditionally.
UseInitializeAlways(g) ==
    /\ Alive
    /\ pc[g] = "do"
    /\ OnceDo(g)
    /\ raced' = FALSE
    /\ UNCHANGED <<srvVars, pkgVars>>

\* The initializer's body: it calls Client(name, InitValue), or nothing.
InitializerRun(g) ==
    /\ Alive
    /\ pc[g] = "init"
    /\ IF cur[g].lc.lazyInitialize = "reg"
       THEN BeginStore(g, ClientEntry(InitValue), cur[g], "init_write")
       ELSE /\ pc' = [pc EXCEPT ![g] = "init_ret"]
            /\ ret' = NoRet
            /\ raced' = FALSE
            /\ UNCHANGED <<clients, once, runs, cur, crashed>>
    /\ UNCHANGED <<srvVars, pkgVars>>

\* The initializer's Client call commits its map store and returns.
InitializerStore(g) ==
    /\ Alive
    /\ pc[g] = "init_write"
    /\ clients' = [clients EXCEPT !.m[cur[g].name] =
                        MapAssign(@, cur[g].pending)]
    /\ cur' = [cur EXCEPT ![g].pending = NoEntry]
    /\ pc' = [pc EXCEPT ![g] = "init_ret"]
    /\ ret' = NoRet
    /\ raced' = FALSE
    /\ crashed' = crashed
    /\ Collect(once, runs)
    /\ UNCHANGED <<srvVars, pkgVars>>

\* A Once that forgets it has run, so that the next Do runs f again.
OnceAfterRunRetry == "new"

\* State of a sync.Once after the function it ran has returned.
OnceAfterRun == "done"

\* The initializer returns: the Once is done and its waiters go on.
InitializerReturn(g) ==
    /\ Alive
    /\ pc[g] = "init_ret"
    /\ once' = [once EXCEPT ![cur[g].lc.id] = OnceAfterRun]
    /\ pc' = [pc EXCEPT ![g] = "refresh"]
    /\ ret' = NoRet
    /\ raced' = FALSE
    /\ UNCHANGED <<clients, runs, cur, crashed>>
    /\ UNCHANGED <<srvVars, pkgVars>>

\* UseClient after initialization: the second lookup and the cast.
UseCast(g, n, T, lc) ==
    IF ~lc.ok THEN UseReturn(g, n, T, ErrNotFound, NilValue, cur[g].lc)
    ELSE IF ~CastOk(lc.clientPtr, T)
        THEN UseReturn(g, n, T, ErrTypeMismatch, NilValue, cur[g].lc)
    ELSE UseReturn(g, n, T, NoError, lc.clientPtr, cur[g].lc)

UseRefresh(g) ==
    /\ Alive
    /\ pc[g] = "refresh"
    /\ \/ Throw(g, "UseClient", cur[g].name)
       \/ /\ \E lc \in ReadOutcomes(g, cur[g].name) :
                UseCast(g, cur[g].name, cur[g].hint, lc)
          /\ raced' = Racy(g)
          /\ UNCHANGED <<clients, crashed>>
          /\ Collect(once, runs)
    /\ UNCHANGED <<srvVars, pkgVars>>

(* ------------------- environment, metadata cache, port ------------------ *)

\* Config keys, which are also the names of the environment variables that
\* LoadConfig reads.
Keys == {"k1", "k2"}

\* Names of the environment variables.
EnvNames == Keys \cup {"PORT"}

\* An environment variable that is not set.
Unset == "<unset>"

\* The values an environment variable is given.
EnvValues(e) == IF e = "PORT" THEN {Unset, "", "8081"} ELSE {Unset, "", "v1"}

\* A lookup that tells a variable that is not set from an empty one.
GetenvRaw(e) == env[e]

\* os.Getenv(e): the empty string when the variable is not set.
Getenv(e) == IF env[e] = Unset THEN "" ELSE env[e]

\* A default port other than the documented one.
DefaultPortOther == "80"

\* The port served when $PORT is empty.
DefaultPort == "8080"

\* Port() / ServicePort(): the cached port, else $PORT, else the default.
ServicePortValue ==
    IF servicePort # "" THEN servicePort
    ELSE IF Getenv("PORT") = "" THEN DefaultPort
    ELSE Getenv("PORT")

\* Service.Port(): $PORT, or the default when port() fails on an empty one.
ServicePortUncached ==
    IF Getenv("PORT") = "" THEN DefaultPort ELSE Getenv("PORT")

\* No address has been given to a listener.
NoAddr == [host |-> "none", port |-> "none"]

\* The Addr of a server the caller has configured.
UserAddr == [host |-> "user", port |-> "user"]

\* No config / port / log call returned in the step just taken.
NoURet ==
    [op |-> "none", key |-> "none", val |-> "", err |-> NoError, count |-> 0]

\* os.Setenv(e, v) or os.Unsetenv(e), by the program or its environment.
Setenv(e, v) ==
    /\ ~exited
    /\ env[e] # v
    /\ env' = [env EXCEPT ![e] = v]
    /\ uret' = NoURet
    /\ UNCHANGED <<config, servicePort, addr, logged>>
    /\ UNCHANGED <<regVars, srvVars>>

\* ResetCache(): this = cache{}
CallResetCache ==
    /\ ~exited
    /\ servicePort' = ""
    /\ uret' = [NoURet EXCEPT !.op = "ResetCache"]
    /\ UNCHANGED <<config, env, addr, logged>>
    /\ UNCHANGED <<regVars, srvVars>>

\* Port()
CallPort ==
    /\ ~exited
    /\ servicePort' = ServicePortValue
    /\ uret' = [NoURet EXCEPT !.op = "Port", !.val = ServicePortValue]
    /\ UNCHANGED <<config, env, addr, logged>>
    /\ UNCHANGED <<regVars, srvVars>>

(* ----------------------------- config store ---------------------------- *)

\* The values PutConfig is given.
ConfigValues == {"", "v1", "v2"}

\* A key the map does not hold.
Absent == "<absent>"

ErrNoConfig == "no config found for key"
ErrNoEnv == "unable to find value for env var"

\* make(map[string]string)
EmptyConfig == [k \in Keys |-> Absent]

\* ensureInitConfig(): a nil map is replaced by an empty one.
ensureInitConfig ==
    IF config.isNil THEN [isNil |-> FALSE, m |-> EmptyConfig] ELSE config

\* The keys held by config map c.
ConfigKeys(c) == {k \in Keys : c.m[k] # Absent}

\* A store that keeps the value a key already has.
ConfigAssignKeep(c, k, v) ==
    IF c.m[k] # Absent THEN c ELSE [c EXCEPT !.m[k] = v]

\* config[key] = val
ConfigAssign(c, k, v) == [c EXCEPT !.m[k] = v]

\* ResetConfig()
CallResetConfig ==
    /\ ~exited
    /\ config' = [isNil |-> FALSE, m |-> EmptyConfig]
    /\ uret' = [NoURet EXCEPT !.op = "ResetConfig"]
    /\ UNCHANGED <<env, servicePort, addr, logged>>
    /\ UNCHANGED <<regVars, srvVars>>

\* CountConfig(): len(config), of a nil map too.
CallCountConfig ==
    /\ ~exited
    /\ uret' = [NoURet EXCEPT !.op = "CountConfig",
                    !.count = Cardinality(ConfigKeys(config))]
    /\ UNCHANGED <<config, env, servicePort, addr, logged>>
    /\ UNCHANGED <<regVars, srvVars>>

\* PutConfig(key, val)
CallPutConfig(k, v) ==
    /\ ~exited
    /\ config' = ConfigAssign(ensureInitConfig, k, v)
    /\ uret' = [NoURet EXCEPT !.op = "PutConfig", !.key = k, !.val = v]
    /\ UNCHANGED <<env, servicePort, addr, logged>>
    /\ UNCHANGED <<regVars, srvVars>>

\* GetConfig(key)
CallGetConfig(k) ==
    /\ ~exited
    /\ config' = ensureInitConfig
    /\ uret' = IF config.m[k] = Absent
               THEN [NoURet EXCEPT !.op = "GetConfig", !.key = k,
                        !.err = ErrNoConfig]
               ELSE [NoURet EXCEPT !.op = "GetConfig", !.key = k,
                        !.val = config.m[k]]
    /\ UNCHANGED <<env, servicePort, addr, logged>>
    /\ UNCHANGED <<regVars, srvVars>>

\* LoadConfig(env): an empty os.Getenv is an error; else the value is put
\* under the variable's name and returned.
CallLoadConfig(e) ==
    /\ ~exited
    /\ IF Getenv(e) = ""
       THEN /\ config' = ensureInitConfig
            /\ uret' = [NoURet EXCEPT !.op = "LoadConfig", !.key = e,
                            !.err = ErrNoEnv]
       ELSE /\ config' = ConfigAssign(ensureInitConfig, e, Getenv(e))
            /\ uret' = [NoURet EXCEPT !.op = "LoadConfig", !.key = e,
                            !.val = Getenv(e)]
    /\ UNCHANGED <<env, servicePort, addr, logged>>
    /\ UNCHANGED <<regVars, srvVars>>

(* -------------------------------- logging ------------------------------ *)

\* logEntrySeverities()
logEntrySeverities ==
    {"DEFAULT", "DEBUG", "INFO", "NOTICE", "WARNING", "ERROR", "CRITICAL",
     "ALERT", "EMERGENCY", "FATAL"}

\* isLogEntrySeverity(severity)
isLogEntrySeverity(severity) == severity \in logEntrySeverities

\* The severities given to the logging calls: recognized ones and others.
SeverityInputs == {"DEFAULT", "INFO", "WARNING", "FATAL", "TRACE", ""}

\* The logging entry points: the package's Log (through logf), and the Log
\* methods of Job and of Service.
LogAPIs == {"Log", "Job.Log", "Service.Log"}

\* What a logging entry point does with a severity that is not recognized:
\* logf replaces it by DEFAULT, Job.Log and Service.Log call Fatal.
OnUnknownSeverity(api) == IF api = "Log" THEN "coerce" ELSE "fatal"

\* Log(r, severity, message), j.Log(severity, message),
\* s.Log(r, severity, message)
CallLog(api, severity) ==
    /\ ~exited
    /\ uret' = [NoURet EXCEPT !.op = api, !.key = severity]
    /\ IF isLogEntrySeverity(severity)
       THEN /\ logged' = severity
            /\ exited' = exited
       ELSE IF OnUnknownSeverity(api) = "coerce"
       THEN /\ logged' = "DEFAULT"
            /\ exited' = exited
       ELSE /\ logged' = "fatal error: unknown severity"
            /\ exited' = TRUE
    /\ UNCHANGED <<config, env, servicePort, addr>>
    /\ UNCHANGED <<kind, mpc, bpc, portBusy, listener, srv, berr, errChan,
                   sigChan, inflight, expired, hookCalls, result, seen>>
    /\ UNCHANGED regVars

(* ------------------------- serve orchestration ------------------------- *)

\* The orchestration calls: ServeHTTP and ServeGRPC of the package, and the
\* method Service.ListenAndServe.
Kinds == {"ServeHTTP", "ServeGRPC", "ListenAndServe"}

\* Capacity of errChan and of sigChan: make(chan ..., 1).
ChanCap == 1

\* An unbuffered channel: a send completes only while the receiver waits
\* in the select.
ChanFullUnbuffered(c) == mpc # "select"

\* A send on channel c has to wait: the buffer is full.
ChanFull(c) == Len(c) >= ChanCap

\* The results of an orchestration call.
ResNil == "nil"
ResNilServer == "cannot listen using nil GRPC server"
ErrBind == "listen: address already in use"
ErrServe == "serve: accept failed"

\* The closed-normally error of a server that has been shut down.
ErrClosed == "http: Server closed"

\* The orchestration call is running in a live process.
Running == mpc # "idle" /\ ~exited

\* The call serves over net/http (http.Server) rather than grpc.Server.
IsHTTP(k) == k \in {"ServeHTTP", "ListenAndServe"}

\* What the serve goroutine does when the port cannot be bound: the http
\* variants get the error back from server.ListenAndServe and report it,
\* ServeGRPC calls log.Fatalf on the error of net.Listen.
OnListenError(k) == IF IsHTTP(k) THEN "report" ELSE "fatal"

\* A serve goroutine that reports the closed-normally error as well.
OnServeClosedReport == "report"

\* What the serve goroutine does when serving ends closed normally
\* (err == http.ErrServerClosed, grpc.ErrServerStopped): nothing.
OnServeClosed == "ignore"

\* What the call does when the drain step returns an error: Fatal.
OnDrainError(k) == "fatal"

\* A call that runs the hook before it stops the server.
AfterSignalHook == "hook"

\* Position after the signal branch of the select: the stop/drain step.
AfterSignal == "stop"

\* A call that goes on to stop the server after it has received an error.
AfterErrorStop == "stop"

\* A call that, having received an error, waits on for the signal.
AfterErrorWait == "select"

\* Position after the error branch of the select: return err.
AfterError == "returned"

\* Position after the stop/drain step has returned: the shutdown hook.
AfterDrain == "hook"

\* Position after the shutdown hook has returned: return nil.
AfterHook == "returned"

\* The earlier ListenAndServeHTTP returns the closed-normally error.
ShutdownResultClosed(k) == "http: Server closed"

\* The value returned after the shutdown hook.
ShutdownResult(k) == ResNil

\* The address the call gives its server.  ServeHTTP builds the default
\* server on 0.0.0.0 and ServicePort() and leaves a given server's Addr;
\* Service.ListenAndServe sets ":" and s.Port(); ServeGRPC's address is
\* formed by its serve goroutine.  ServeHTTP and ServeGRPC also log
\* ServicePort() once the goroutine is started, which for ServeGRPC may come
\* before or after the goroutine's own ServicePort().
ServerAddr(k, server) ==
    IF k = "ServeHTTP"
    THEN /\ servicePort' = ServicePortValue
         /\ addr' = IF server = "nil"
                    THEN [host |-> "0.0.0.0", port |-> ServicePortValue]
                    ELSE UserAddr
    ELSE IF k = "ListenAndServe"
    THEN /\ servicePort' = servicePort
         /\ addr' = [host |-> "", port |-> ServicePortUncached]
    ELSE /\ servicePort' \in {servicePort, ServicePortValue}
         /\ addr' = addr

\* The call starts: ServeGRPC refuses a nil server; otherwise the channels
\* are made, the signals are trapped and the serve goroutine is started.
CallServe(k, server, busy) ==
    /\ mpc = "idle"
    /\ ~exited
    /\ kind' = k
    /\ portBusy' = busy
    /\ IF k = "ServeGRPC" /\ server = "nil"
       THEN /\ mpc' = "returned"
            /\ result' = ResNilServer
            /\ bpc' = bpc
            /\ UNCHANGED <<servicePort, addr>>
       ELSE /\ mpc' = "select"
            /\ bpc' = "start"
            /\ result' = result
            /\ ServerAddr(k, server)
    /\ UNCHANGED <<listener, srv, berr, errChan, sigChan, inflight, expired,
                   hookCalls, exited, seen>>
    /\ uret' = NoURet
    /\ UNCHANGED <<config, env, logged>>
    /\ UNCHANGED regVars

\* Where the serve goroutine goes when serving has ended closed normally:
\* the error is filtered out and the goroutine ends without a send.
ClosedNormally ==
    IF OnServeClosed = "report"
    THEN [bpc |-> "send", berr |-> ErrClosed]
    ELSE [bpc |-> "ended", berr |-> berr]

\* The serve goroutine binds the port (net.Listen, for the http variants
\* inside server.ListenAndServe, which first looks at the shutdown flag).
BgListen ==
    /\ Running
    /\ bpc = "start"
    /\ IF IsHTTP(kind) /\ srv = "shutdown"
       THEN /\ bpc' = ClosedNormally.bpc
            /\ berr' = ClosedNormally.berr
            /\ UNCHANGED <<listener, exited, seen>>
       ELSE IF ~portBusy
       THEN /\ bpc' = "bound"
            /\ listener' = "bound"
            /\ UNCHANGED <<berr, exited, seen>>
       ELSE IF OnListenError(kind) = "report"
       THEN /\ bpc' = "send"
            /\ berr' = ErrBind
            /\ seen' = seen \cup {"bindfail"}
            /\ UNCHANGED <<listener, exited>>
       ELSE /\ exited' = TRUE
            /\ seen' = seen \cup {"bindfail"}
            /\ UNCHANGED <<bpc, listener, berr>>
    /\ IF IsHTTP(kind)
       THEN UNCHANGED <<servicePort, addr>>
       ELSE /\ servicePort' = ServicePortValue
            /\ addr' = [host |-> "0.0.0.0", port |-> ServicePortValue]
    /\ UNCHANGED <<kind, mpc, portBusy, srv, errChan, sigChan, inflight,
                   expired, hookCalls, result>>
    /\ uret' = NoURet
    /\ UNCHANGED <<config, env, logged>>
    /\ UNCHANGED regVars

\* server.Serve(listener) takes the listener, unless the server has been
\* stopped already: then it closes the listener and ends "closed normally".
BgServe ==
    /\ Running
    /\ bpc = "bound"
    /\ IF srv = "shutdown"
       THEN /\ bpc' = ClosedNormally.bpc
            /\ berr' = ClosedNormally.berr
            /\ listener' = "closed"
            /\ UNCHANGED <<srv, seen>>
       ELSE /\ bpc' = "serving"
            /\ listener' = "accepting"
            /\ srv' = "serving"
            /\ seen' = seen \cup {"serving"}
            /\ berr' = berr
    /\ UNCHANGED <<kind, mpc, portBusy, errChan, sigChan, inflight,
                   expired, hookCalls, result, exited>>
    /\ UNCHANGED <<regVars, pkgVars>>

\* The accept loop fails: Serve returns an error other than closed normally.
ServeFail ==
    /\ Running
    /\ bpc = "serving"
    /\ srv = "serving"
    /\ bpc' = "send"
    /\ berr' = ErrServe
    /\ listener' = "closed"
    /\ seen' = seen \cup {"servefail"}
                \cup (IF "shutdown" \in seen THEN {"latefail"} ELSE {})
    /\ UNCHANGED <<kind, mpc, portBusy, srv, errChan, sigChan, inflight,
                   expired, hookCalls, result, exited>>
    /\ UNCHANGED <<regVars, pkgVars>>

\* The accept loop ends because the server was stopped: closed normally
\* (http.ErrServerClosed, grpc.ErrServerStopped), which is not reported.
ServeClosed ==
    /\ Running
    /\ bpc = "serving"
    /\ srv = "shutdown"
    /\ bpc' = ClosedNormally.bpc
    /\ berr' = ClosedNormally.berr
    /\ UNCHANGED <<kind, mpc, portBusy, listener, srv, errChan, sigChan,
                   inflight, expired, hookCalls, result, exited, seen>>
    /\ UNCHANGED <<regVars, pkgVars>>

\* errChan <- err
BgSend ==
    /\ Running
    /\ bpc = "send"
    /\ ~ChanFull(errChan)
    /\ errChan' = Append(errChan, berr)
    /\ berr' = "none"
    /\ bpc' = "ended"
    /\ UNCHANGED <<kind, mpc, portBusy, listener, srv, sigChan, inflight,
                   expired, hookCalls, result, exited, seen>>
    /\ UNCHANGED <<regVars, pkgVars>>

\* The server is shut down from outside the call while the call waits in
\* its select: Service.Shutdown, or Shutdown / GracefulStop on the server
\* the caller passed in.  The listeners are closed, so that serving ends
\* closed normally; the requests in flight go on.  The server ServeHTTP
\* makes for a nil argument is not reachable from outside.
ExternalClose ==
    /\ Running
    /\ mpc = "select"
    /\ srv # "shutdown"
    /\ kind = "ServeHTTP" => addr = UserAddr
    /\ srv' = "shutdown"
    /\ listener' = IF listener = "accepting" THEN "closed" ELSE listener
    /\ seen' = seen \cup {"extclose"}
    /\ UNCHANGED <<kind, mpc, bpc, portBusy, berr, errChan, sigChan,
                   inflight, expired, hookCalls, result, exited>>
    /\ UNCHANGED <<regVars, pkgVars>>

\* SIGINT or SIGTERM arrives: signal.Notify's sender does not block, a
\* signal that finds sigChan full is dropped.
Signal(sig) ==
    /\ Running
    /\ sigChan' = IF Len(sigChan) < ChanCap THEN Append(sigChan, sig)
                  ELSE sigChan
    /\ seen' = seen \cup {"signal"}
    /\ UNCHANGED <<kind, mpc, bpc, portBusy, listener, srv, berr, errChan,
                   inflight, expired, hookCalls, result, exited>>
    /\ UNCHANGED <<regVars, pkgVars>>

\* A request arrives at the accepting listener and is being handled.
RequestArrive ==
    /\ Running
    /\ listener = "accepting"
    /\ srv = "serving"
    /\ inflight < MaxRequests
    /\ inflight' = inflight + 1
    /\ seen' = seen \cup {"request"}
    /\ UNCHANGED <<kind, mpc, bpc, portBusy, listener, srv, berr, errChan,
                   sigChan, expired, hookCalls, result, exited>>
    /\ UNCHANGED <<regVars, pkgVars>>

\* A handler finishes its request.
RequestDone ==
    /\ Running
    /\ inflight > 0
    /\ inflight' = inflight - 1
    /\ UNCHANGED <<kind, mpc, bpc, portBusy, listener, srv, berr, errChan,
                   sigChan, expired, hookCalls, result, exited, seen>>
    /\ UNCHANGED <<regVars, pkgVars>>

\* select, case err := <-errChan: return err
SelectErr ==
    /\ Running
    /\ mpc = "select"
    /\ errChan # <<>>
    /\ result' = Head(errChan)
    /\ errChan' = Tail(errChan)
    /\ mpc' = AfterError
    /\ UNCHANGED <<kind, bpc, portBusy, listener, srv, berr, sigChan,
                   inflight, expired, hookCalls, exited, seen>>
    /\ UNCHANGED <<regVars, pkgVars>>

\* select, case sig := <-sigChan: go on to the shutdown.
SelectSig ==
    /\ Running
    /\ mpc = "select"
    /\ sigChan # <<>>
    /\ sigChan' = Tail(sigChan)
    /\ mpc' = AfterSignal
    /\ seen' = seen \cup {"shutdown"}
    /\ UNCHANGED <<kind, bpc, portBusy, listener, srv, berr, errChan,
                   inflight, expired, hookCalls, result, exited>>
    /\ UNCHANGED <<regVars, pkgVars>>

\* The stop/drain step is called under the 10 s context.  server.Stop()
\* closes the listeners and every connection and returns.
\* server.Shutdown(ctx) closes the listeners and returns nil at once when
\* no request is in flight; otherwise it waits for the requests.
StopServer ==
    /\ Running
    /\ mpc = "stop"
    /\ srv' = "shutdown"
    /\ listener' = IF listener = "accepting" THEN "closed" ELSE listener
    /\ IF IsHTTP(kind) /\ inflight > 0
       THEN /\ mpc' = "draining"
            /\ UNCHANGED <<inflight, seen>>
       ELSE /\ mpc' = AfterDrain
            /\ inflight' = 0
            /\ seen' = seen \cup {"drained"}
    /\ UNCHANGED <<kind, bpc, portBusy, berr, errChan, sigChan, expired,
                   hookCalls, result, exited>>
    /\ UNCHANGED <<regVars, pkgVars>>

\* Ten seconds have passed since the context was made.
DeadlinePasses ==
    /\ Running
    /\ mpc = "draining"
    /\ ~expired
    /\ expired' = TRUE
    /\ UNCHANGED <<kind, mpc, bpc, portBusy, listener, srv, berr, errChan,
                   sigChan, inflight, hookCalls, result, exited, seen>>
    /\ UNCHANGED <<regVars, pkgVars>>

\* server.Shutdown(ctx) finds no request in flight any more: it returns nil.
DrainDone ==
    /\ Running
    /\ mpc = "draining"
    /\ inflight = 0
    /\ mpc' = AfterDrain
    /\ seen' = seen \cup {"drained"}
    /\ UNCHANGED <<kind, bpc, portBusy, listener, srv, berr, errChan, sigChan,
                   inflight, expired, hookCalls, result, exited>>
    /\ UNCHANGED <<regVars, pkgVars>>

\* server.Shutdown(ctx) returns context.DeadlineExceeded; the call passes
\* the error to Fatal, and log.Fatalf ends the process.
DrainTimeout ==
    /\ Running
    /\ mpc = "draining"
    /\ expired
    /\ seen' = seen \cup {"timeout"}
    /\ IF OnDrainError(kind) = "fatal"
       THEN /\ exited' = TRUE
            /\ UNCHANGED <<mpc, result>>
       ELSE /\ mpc' = AfterDrain
            /\ UNCHANGED <<exited, result>>
    /\ UNCHANGED <<kind, bpc, portBusy, listener, srv, berr, errChan, sigChan,
                   inflight, expired, hookCalls>>
    /\ UNCHANGED <<regVars, pkgVars>>

\* shutdown(ctx): the user-supplied hook is called.
HookCall ==
    /\ Running
    /\ mpc = "hook"
    /\ hookCalls' = hookCalls + 1
    /\ mpc' = "hookrun"
    /\ UNCHANGED <<kind, bpc, portBusy, listener, srv, berr, errChan, sigChan,
                   inflight, expired, result, exited, seen>>
    /\ UNCHANGED <<regVars, pkgVars>>

\* The hook returns, and the call returns after it.
HookReturn ==
    /\ Running
    /\ mpc = "hookrun"
    /\ mpc' = AfterHook
    /\ result' = ShutdownResult(kind)
    /\ UNCHANGED <<kind, bpc, portBusy, listener, srv, berr, errChan, sigChan,
                   inflight, expired, hookCalls, exited, seen>>
    /\ UNCHANGED <<regVars, pkgVars>>

(* --------------------------- specifications ---------------------------- *)

RegistryInit ==
    /\ clients = [isNil |-> TRUE, m |-> EmptyMap]
    /\ once = [i \in Pool |-> "new"]
    /\ runs = [i \in Pool |-> 0]
    /\ pc = [g \in Goroutines |-> "idle"]
    /\ cur = [g \in Goroutines |-> IdleCur]
    /\ ret = NoRet
    /\ raced = FALSE
    /\ crashed = FALSE

ServeIdle ==
    /\ kind = "none"
    /\ mpc = "idle"
    /\ bpc = "none"
    /\ portBusy = FALSE
    /\ listener = "none"
    /\ srv = "new"
    /\ berr = "none"
    /\ errChan = <<>>
    /\ sigChan = <<>>
    /\ inflight = 0
    /\ expired = FALSE
    /\ hookCalls = 0
    /\ result = "none"
    /\ exited = FALSE
    /\ seen = {}

\* The package state of a fresh process: nil config map, empty cache, and
\* an environment in which none of the variables is set.
PkgInit ==
    /\ config = [isNil |-> TRUE, m |-> EmptyConfig]
    /\ env = [e \in EnvNames |-> Unset]
    /\ servicePort = ""
    /\ addr = NoAddr
    /\ logged = "none"
    /\ uret = NoURet

Init == RegistryInit /\ ServeIdle /\ PkgInit

\* The calls goroutine g can start, with arguments from the given sets.
Calls(g, VS, FS, HS) ==
    \/ CallResetClients(g)
    \/ CallCountClients(g)
    \/ CallListClientNames(g)
    \/ \E n \in Names, v \in VS : CallClient(g, n, v)
    \/ \E n \in Names, f \in FS : CallLazyClient(g, n, f)
    \/ \E n \in Names, T \in HS : CallUseClient(g, n, T)

\* The steps inside a call that are the same in both revisions.
Inside(g) ==
    \/ FinishStore(g)
    \/ InitializerRun(g)
    \/ InitializerStore(g)
    \/ InitializerReturn(g)
    \/ UseRefresh(g)

\* Arguments of the calls made concurrently: a value other than the
\* initializer's, the two initializers that are functions, one pointer type.
ConcValues == {"a2"}
ConcInitializers == {"reg", "noreg"}
ConcHints == {"PtrA"}

\* The registry used from NumGoroutines goroutines at once.
Next ==
    \E g \in Goroutines :
        \/ Calls(g, ConcValues, ConcInitializers, ConcHints)
        \/ Inside(g)
        \/ UseInitialize(g)

Spec == Init /\ [][Next]_vars

\* The registry used from a single goroutine, with every argument.
SeqNext ==
    \/ Calls(1, Values, Initializers, Hints)
    \/ Inside(1)
    \/ UseInitialize(1)

SeqSpec == Init /\ [][SeqNext]_vars

\* The earlier revision of UseClient, used from a single goroutine.
SeqNextAlways ==
    \/ Calls(1, Values, Initializers, Hints)
    \/ Inside(1)
    \/ UseInitializeAlways(1)

SeqSpecAlways == Init /\ [][SeqNextAlways]_vars

\* One orchestration call, its serve goroutine and its environment.
ServeNext ==
    \/ \E k \in Kinds, server \in {"nil", "set"}, busy \in BOOLEAN :
            CallServe(k, server, busy)
    \/ BgListen
    \/ BgServe
    \/ ServeFail
    \/ ServeClosed
    \/ ExternalClose
    \/ BgSend
    \/ \E sig \in {"SIGINT", "SIGTERM"} : Signal(sig)
    \/ RequestArrive
    \/ RequestDone
    \/ SelectErr
    \/ SelectSig
    \/ StopServer
    \/ DeadlinePasses
    \/ DrainDone
    \/ DrainTimeout
    \/ HookCall
    \/ HookReturn
    \/ \E v \in EnvValues("PORT") : Setenv("PORT", v)
    \/ CallResetCache
    \/ CallPort

ServeSpec == Init /\ [][ServeNext]_vars

\* The orchestration call under fair scheduling: the goroutine of the call
\* is not starved at its stop/drain step, the handlers of the requests in
\* flight finish, and the shutdown hook, once called, returns.
FairServeSpec ==
    /\ ServeSpec
    /\ WF_vars(StopServer)
    /\ WF_vars(RequestDone)
    /\ WF_vars(DrainDone)
    /\ WF_vars(DrainTimeout)
    /\ WF_vars(HookCall)
    /\ WF_vars(HookReturn)

\* The config store, LoadConfig's environment and the logging calls.
PkgNext ==
    \/ \E e \in Keys : \E v \in EnvValues(e) : Setenv(e, v)
    \/ CallResetConfig
    \/ CallCountConfig
    \/ \E k \in Keys, v \in ConfigValues : CallPutConfig(k, v)
    \/ \E k \in Keys : CallGetConfig(k)
    \/ \E e \in Keys : CallLoadConfig(e)
    \/ \E api \in LogAPIs, severity \in SeverityInputs : CallLog(api, severity)

PkgSpec == Init /\ [][PkgNext]_vars

(* ------------------------------ properties ----------------------------- *)

\* C1: when a name is registered lazily with an initializer that calls
\* Client, and UseClient calls of that name run concurrently, every call
\* returns the value: here, a UseClient of the name that starts while another
\* UseClient's initializer is storing the value (and no other call is in
\* progress) does not end the process.
C1_ConcurrentUseReturns ==
    \A w \in Goroutines :
        ( /\ pc[w] = "init_write"
          /\ cur[w].lc.lazyInitialize = "reg"
          /\ clients.m[cur[w].name].id = cur[w].lc.id
          /\ \A g \in Goroutines \ {w} : pc[g] = "idle" )
        => ~( /\ crashed
              /\ ret.op = "UseClient"
              /\ ret.name = cur[w].name
              /\ ret.g # w )

\* C2: no read or write of the map begins while another goroutine is
\* writing the map.
C2_NoOverlappingMapAccess == ~raced

\* C6: a UseClient with a pointer hint that finds an entry registered by
\* Client, whose value has the hint's type, returns that value with no
\* error, invokes no initializer and does not end the process.
C6_ClientThenUse ==
    ( /\ ret.op = "UseClient"
      /\ isPointer(ret.arg)
      /\ ret.lc.ok
      /\ ret.lc.initialized
      /\ TypeOf(ret.lc.clientPtr) = ret.arg )
    => ( /\ ret.err = NoError
         /\ ret.val = ret.lc.clientPtr
         /\ ret.inits = 0
         /\ ~crashed )

\* C7 (as stated): UseClient of a name that is not registered returns the
\* NotFound error for every requested type.
C7_NotFoundForEveryType ==
    (ret.op = "UseClient" /\ ~ret.lc.ok) => ret.err = ErrNotFound

\* C7 (amended): UseClient of a name that is not registered returns the
\* NotFound error for every requested pointer type.
C7_NotFoundForPointerType ==
    (ret.op = "UseClient" /\ ~ret.lc.ok /\ isPointer(ret.arg))
    => (ret.err = ErrNotFound /\ ret.val = NilValue)

\* A UseClient with a pointer hint has returned NotFound for one name while
\* another name is registered.
C7_Witness ==
    /\ ret.op = "UseClient"
    /\ ~ret.lc.ok
    /\ isPointer(ret.arg)
    /\ ret.err = ErrNotFound
    /\ Registered(clients) # {}

\* C8 (as stated): UseClient of an initialized entry whose value's type
\* differs from the requested type returns the TypeMismatch error.
C8_MismatchForEveryType ==
    ( /\ ret.op = "UseClient"
      /\ ret.lc.ok
      /\ ret.lc.initialized
      /\ TypeOf(ret.lc.clientPtr) # ret.arg )
    => ret.err = ErrTypeMismatch

\* C8 (amended): UseClient of an initialized entry whose value's type
\* differs from the requested pointer type returns the TypeMismatch error;
\* a requested type that is no pointer gets the expected-pointer error.
C8_MismatchForPointerType ==
    ( /\ ret.op = "UseClient"
      /\ ret.lc.ok
      /\ ret.lc.initialized
      /\ TypeOf(ret.lc.clientPtr) # ret.arg )
    => ( /\ ret.val = NilValue
         /\ ret.err = IF isPointer(ret.arg) THEN ErrTypeMismatch
                      ELSE ErrExpectedPointer )

\* A UseClient with a pointer hint has returned TypeMismatch for a stored
\* integer.
C8_Witness ==
    /\ ret.op = "UseClient"
    /\ ret.lc.initialized
    /\ ret.lc.clientPtr = "i42"
    /\ ret.arg = "PtrA"
    /\ ret.err = ErrTypeMismatch

\* C9 (as stated): UseClient of a lazy entry that is not initialized and has
\* no initializer returns the Uninitializable error.
C9_UninitializableForEveryType ==
    ( /\ ret.op = "UseClient"
      /\ ret.lc.ok
      /\ ~ret.lc.initialized
      /\ ret.lc.lazyInitialize = "nil" )
    => ret.err = ErrUninitializable

\* C9 (amended): a UseClient with a pointer hint that finds a lazy entry
\* that is not initialized and has no initializer returns the
\* Uninitializable error in the step that looked the entry up, and that step
\* changes neither a Once, nor an invocation count, nor the map.
C9_UninitializableForPointerType ==
    [][ ( /\ ret'.op = "UseClient"
          /\ isPointer(ret'.arg)
          /\ ret'.lc.ok
          /\ ~ret'.lc.initialized
          /\ ret'.lc.lazyInitialize = "nil" )
        => ( /\ ret'.err = ErrUninitializable
             /\ ret'.inits = 0
             /\ once' = once
             /\ runs' = runs
             /\ clients'.m = ensureInitClients.m
             /\ ~crashed' ) ]_vars

\* A UseClient with a pointer hint has returned Uninitializable.
C9_Witness ==
    /\ ret.op = "UseClient"
    /\ isPointer(ret.arg)
    /\ ret.lc.ok
    /\ ret.lc.lazyInitialize = "nil"
    /\ ~ret.lc.initialized
    /\ ret.err = ErrUninitializable

\* The call has served, a signal has arrived, and no request has arrived and
\* the accept loop has not failed.
SignalBeforeAnyRequest ==
    /\ "serving" \in seen
    /\ "signal" \in seen
    /\ "request" \notin seen
    /\ "servefail" \notin seen

\* C3: when the call is serving and a termination signal arrives with no
\* request having arrived, the process is not ended, the hook is invoked at
\* most once, and once the call has returned it has returned nil and the
\* hook has been invoked exactly once.
C3_SignalReturnsNil ==
    SignalBeforeAnyRequest
    => ( /\ ~exited
         /\ hookCalls <= 1
         /\ mpc = "returned" => (result = ResNil /\ hookCalls = 1) )

\* The call has served, was signalled before any request and has returned.
C3_Witness ==
    /\ SignalBeforeAnyRequest
    /\ mpc = "returned"
    /\ result = ResNil
    /\ hookCalls = 1

\* C4: a drain that times out does not end the process: the hook can still
\* run and the call can still report the timeout.
C4_DrainTimeoutKeepsRunning == "timeout" \in seen => ~exited

\* C5: when the port cannot be bound, the process is not ended, the hook is
\* never invoked, and once the call has returned it has returned the bind
\* error.
C5_BindFailureReturned ==
    "bindfail" \in seen
    => ( /\ ~exited
         /\ hookCalls = 0
         /\ mpc = "returned" => result = ErrBind )

\* C10: the hook is invoked at most once, one invocation at a time, and
\* only after the stop/drain step has returned, the server being stopped and
\* the listener not accepting.
C10_HookOnceAfterStop ==
    /\ hookCalls <= 1
    /\ mpc = "hookrun" => hookCalls = 1
    /\ hookCalls > 0 => ( /\ "drained" \in seen
                          /\ srv = "shutdown"
                          /\ listener # "accepting" )

\* The hook is running after the stop of a server that was accepting.
C10_Witness ==
    /\ mpc = "hookrun"
    /\ hookCalls = 1
    /\ "serving" \in seen
    /\ listener = "closed"

\* The call has received from errChan the error its serve goroutine sent.
ErrorObserved ==
    /\ bpc = "ended"
    /\ errChan = <<>>
    /\ \/ "servefail" \in seen
       \/ "bindfail" \in seen /\ OnListenError(kind) = "report"

\* C11: when the serve loop has failed with an error other than closed
\* normally and the call has received that error, the call has returned
\* exactly that error, the call has not stopped or drained the server (it
\* is shut down only if that was done from outside), and the hook has not
\* been invoked.
C11_ServeErrorReturned ==
    (ErrorObserved /\ "servefail" \in seen)
    => ( /\ mpc = "returned"
         /\ result = ErrServe
         /\ hookCalls = 0
         /\ srv = "shutdown" => "extclose" \in seen
         /\ seen \cap {"shutdown", "drained", "timeout"} = {} )

\* The call has returned the serve error while a signal was pending.
C11_Witness ==
    /\ ErrorObserved
    /\ "servefail" \in seen
    /\ mpc = "returned"
    /\ result = ErrServe
    /\ sigChan # <<>>

\* Lexical order of the names used as inputs.
LexLess(x, y) == x = "a" /\ y = "b"

\* C12: ListClientNames returns every registered name exactly once, in
\* ascending lexical order, and ResetClients leaves no name registered, so
\* that a ListClientNames right after it returns the empty list.
C12_ListSortedAndComplete ==
    /\ ret.op = "ListClientNames"
        => LET s == ret.names
           IN  /\ Len(s) = Cardinality(Registered(clients))
               /\ {s[i] : i \in 1..Len(s)} = Registered(clients)
               /\ \A i, j \in 1..Len(s) : i < j => LexLess(s[i], s[j])
    /\ ret.op = "ResetClients"
        => (Registered(clients) = {} /\ ~clients.isNil)

\* ListClientNames has returned both names, one of them registered lazily
\* and one by Client.
C12_Witness ==
    /\ ret.op = "ListClientNames"
    /\ ret.names = <<"a", "b">>
    /\ clients.m["a"].initialized
    /\ ~clients.m["b"].initialized

\* C13: CountClients returns the number of registered names, where the
\* registered names are none after ResetClients, one more (if new) after
\* each Client or LazyClient, and unchanged by every other step: UseClient,
\* the initializer's Client call for its own name, and the reads.
C13_CountIsDistinctNames ==
    [][ /\ ret'.op = "CountClients"
            => ret'.count = Cardinality(Registered(clients))
        /\ Registered(clients') =
                IF ret'.op = "ResetClients" THEN {}
                ELSE IF ret'.op \in {"Client", "LazyClient"}
                    THEN Registered(clients) \cup {ret'.name}
                ELSE Registered(clients) ]_vars

\* CountClients has returned 2 with one name registered lazily and
\* initialized by a UseClient, and one name registered lazily and not
\* initialized.
C13_Witness ==
    /\ ret.op = "CountClients"
    /\ ret.count = 2
    /\ \E n \in Names : ~clients.m[n].initialized
    /\ \E n \in Names : clients.m[n].initialized /\ clients.m[n].clientPtr = InitValue

C15_FailedInitNotRetried ==
    /\ [](\A i \in Pool : runs[i] <= 1)
    /\ []( ( /\ ret.op = "UseClient"
             /\ isPointer(ret.arg)
             /\ ret.lc.lazyInitialize = "noreg"
             /\ ~raced
             /\ clients.m[ret.name] = ret.lc )
           => ( /\ ret.err = ErrTypeMismatch
                /\ ret.val = NilValue
                /\ ret.inits = 1
                /\ once[ret.lc.id] = "done" ) )
    /\ [][ \A g \in Goroutines :
            ( /\ pc'[g] # pc[g]
              /\ cur[g].op = "UseClient"
              /\ cur[g].lc.lazyInitialize = "noreg" )
            => clients'.m = clients.m ]_vars

\* A UseClient of an entry whose initializer registers nothing has
\* returned the cast error while another UseClient of the same entry is in
\* progress.
C15_Witness ==
    /\ ret.op = "UseClient"
    /\ ret.lc.lazyInitialize = "noreg"
    /\ ret.err = ErrTypeMismatch
    /\ ret.inits = 1
    /\ clients.m[ret.name] = ret.lc
    /\ \E g \in Goroutines : pc[g] \in {"do", "refresh"} /\ cur[g].lc = ret.lc

\* C16: PutConfig(k, v) leaves v under k and every other key as it was,
\* ResetConfig leaves no key, and no other call but LoadConfig changes the
\* store; GetConfig(k) returns the value the store holds for k with no
\* error, and an error when it holds none; CountConfig returns the number of
\* keys the store holds.  Hence GetConfig returns the most recent put and
\* CountConfig the number of distinct keys put since the reset.
C16_ConfigStore ==
    [][ /\ uret'.op = "PutConfig"
            => config'.m = [config.m EXCEPT ![uret'.key] = uret'.val]
        /\ uret'.op = "ResetConfig" => config'.m = EmptyConfig
        /\ uret'.op \notin {"PutConfig", "ResetConfig", "LoadConfig"}
            => config'.m = config.m
        /\ uret'.op = "GetConfig"
            => IF config.m[uret'.key] = Absent
               THEN uret'.err # NoError /\ uret'.val = ""
               ELSE uret'.err = NoError /\ uret'.val = config.m[uret'.key]
        /\ uret'.op = "CountConfig"
            => uret'.count = Cardinality({k \in Keys : config.m[k] # Absent})
      ]_vars

\* GetConfig has returned an empty value without error from a store of two
\* keys.
C16_Witness ==
    /\ uret.op = "GetConfig"
    /\ uret.err = NoError
    /\ uret.val = ""
    /\ \A k \in Keys : config.m[k] # Absent

\* C17: LoadConfig(e) returns an error and leaves the store as it was when
\* the variable e is not set or empty; otherwise it returns the variable's
\* value, and the store then holds exactly that value under e, its other
\* keys as they were.
C17_LoadConfig ==
    [][ uret'.op = "LoadConfig"
        => IF env[uret'.key] \in {Unset, ""}
           THEN /\ uret'.err # NoError
                /\ uret'.val = ""
                /\ config'.m = config.m
           ELSE /\ uret'.err = NoError
                /\ uret'.val = env[uret'.key]
                /\ config'.m = [config.m EXCEPT ![uret'.key] = env[uret'.key]]
      ]_vars

\* LoadConfig of a variable that is not set has returned its error, the
\* store holding a value under that name from an earlier call.
C17_Witness ==
    /\ uret.op = "LoadConfig"
    /\ uret.err = ErrNoEnv
    /\ env[uret.key] = Unset
    /\ config.m[uret.key] = "v1"

\* C18: ResetCache empties the cached port; a Port() that finds the cache
\* empty returns $PORT when that is not empty and "8080" otherwise; and the
\* default server of ServeHTTP gets the port that Port() returns at that
\* moment.
C18_PortDefault ==
    /\ [](uret.op = "ResetCache" => servicePort = "")
    /\ [][ /\ (uret'.op = "Port" /\ servicePort = "")
                => uret'.val = IF env["PORT"] \in {Unset, ""} THEN "8080"
                               ELSE env["PORT"]
           /\ (mpc = "idle" /\ mpc' # "idle" /\ addr'.host = "0.0.0.0")
                => addr'.port =
                        IF servicePort # "" THEN servicePort
                        ELSE IF env["PORT"] \in {Unset, ""} THEN "8080"
                        ELSE env["PORT"]
         ]_vars

\* The default server of ServeHTTP accepts on the default port while $PORT
\* is set to nothing, and Port() has returned the default.
C18_Witness ==
    /\ kind = "ServeHTTP"
    /\ listener = "accepting"
    /\ addr = [host |-> "0.0.0.0", port |-> "8080"]
    /\ env["PORT"] = ""
    /\ uret.op = "Port"
    /\ uret.val = "8080"

\* C19: no logging call ends the process, and every logging call emits its
\* entry with the given severity when that is recognized and with DEFAULT
\* otherwise.
C19_UnknownSeverityCoerced ==
    /\ ~exited
    /\ uret.op \in LogAPIs
        => logged = IF uret.key \in logEntrySeverities THEN uret.key
                    ELSE "DEFAULT"

\* C20: while the call waits at its select it receives nothing without
\* leaving the select; it leaves by receiving from exactly one channel, to
\* return the received error or to go on to the shutdown; and after the
\* select it neither receives from a channel nor waits again.
C20_ExactlyOneObserved ==
    [][ LET tookErr == errChan # <<>> /\ errChan' = Tail(errChan)
            tookSig == sigChan # <<>> /\ sigChan' = Tail(sigChan)
        IN  /\ (mpc = "select" /\ mpc' = "select")
                => (~tookErr /\ ~tookSig)
            /\ (mpc = "select" /\ mpc' # "select")
                => \/ /\ tookErr
                      /\ ~tookSig
                      /\ mpc' = "returned"
                      /\ result' = Head(errChan)
                   \/ /\ tookSig
                      /\ ~tookErr
                      /\ mpc' = "stop"
            /\ mpc \notin {"idle", "select"}
                => (mpc' # "select" /\ ~tookErr /\ ~tookSig)
      ]_vars

\* The call has taken the signal branch while an error was pending too.
C20_Witness ==
    /\ mpc = "stop"
    /\ errChan # <<>>
    /\ "shutdown" \in seen

(* C21: no UseClient call returns the value its name's initializer has
   registered while that initializer is still running: every other caller,
   one that arrives after the initializer's Client call included, waits
   until the run has returned. *)
C21_UseWaitsForInitializer ==
    \A w \in Goroutines :
        (/\ ret.op = "UseClient"
         /\ ret.err = NoError
         /\ ret.val = InitValue
         /\ ~raced
         /\ ret.g # w
         /\ cur[w].name = ret.name)
            => pc[w] \notin {"init", "init_write", "init_ret"}

(* C22: the once-guard is per entry: a UseClient call that has looked up
   its entry is made to wait at the initialization step only by a running
   initializer of its own name; while the initializer of another name runs
   or is blocked, the call can take that step and run to completion. *)
C22_OnceGuardPerEntry ==
    \A g \in Goroutines :
        (/\ Alive
         /\ pc[g] = "do"
         /\ \A w \in Goroutines \ {g} :
                pc[w] \in {"init", "init_write", "init_ret"}
                    => cur[w].name # cur[g].name)
            => ENABLED UseInitialize(g)

\* A UseClient of a lazy name has run its own initializer and returned the
\* value while the initializer of the other name was still running.
C22_Witness ==
    /\ ret.op = "UseClient"
    /\ ret.err = NoError
    /\ ret.lc.lazyInitialize = "reg"
    /\ ret.inits = 1
    /\ \E w \in Goroutines \ {ret.g} :
        /\ pc[w] \in {"init", "init_ret"}
        /\ cur[w].name # ret.name
        /\ once[cur[w].lc.id] = "running"

(* C23: a serve failure that happens after the call has observed the
   termination signal and begun the shutdown is not dropped: when the call
   returns, the failure has been taken from errChan and is its result. *)
C23_LateFailureReflected ==
    (mpc = "returned" /\ "latefail" \in seen)
        => (result = ErrServe /\ errChan = <<>>)

(* C24: a registered name is destroyed only by ResetClients: every step of
   Client, LazyClient, UseClient (failed lookups and failed initializations
   included), ListClientNames and CountClients leaves every registered name
   registered. *)
C24_OnlyResetUnregisters ==
    [][ret'.op # "ResetClients"
        => Registered(clients) \subseteq Registered(clients')]_vars

\* A UseClient has just failed after its initializer ran without
\* registering a value, and both names are still registered.
C24_Witness ==
    /\ ret.op = "UseClient"
    /\ ret.err = ErrTypeMismatch
    /\ ret.lc.lazyInitialize = "noreg"
    /\ ret.inits = 1
    /\ Registered(clients) = Names

\* Name n is registered in map c with initialized = true.
IsInitialized(c, n) == c.m[n].ok /\ c.m[n].initialized

(* C25 as stated: between two ResetClients calls no step of a Client,
   LazyClient or UseClient call takes a name from initialized back to
   uninitialized. *)
C25_NeverBackToUninitialized ==
    [][\A n \in Names :
        (IsInitialized(clients, n) /\ ret'.op # "ResetClients")
            => IsInitialized(clients', n)]_vars

(* C25, amended: between two ResetClients calls a name leaves the
   initialized state only when LazyClient registers that name again, and a
   registered name becomes initialized only by the map store of a Client
   call for that name, made by its initializer or directly; no step of
   UseClient itself changes the flag. *)
C25_InitializedChanges ==
    [][\A n \in Names :
        /\ (IsInitialized(clients, n) /\ ~IsInitialized(clients', n))
            => \/ ret'.op = "ResetClients"
               \/ ret'.op = "LazyClient" /\ ret'.name = n
        /\ (clients.m[n].ok /\ ~IsInitialized(clients, n)
                /\ IsInitialized(clients', n))
            => \/ ret'.op = "Client" /\ ret'.name = n
               \/ \E g \in Goroutines :
                    /\ pc[g] = "init_write"
                    /\ pc'[g] = "init_ret"
                    /\ cur[g].name = n]_vars

\* The initializer of a lazy name has just registered the value by its
\* Client call: the name, looked up uninitialized, is now initialized.
C25_Witness ==
    \E g \in Goroutines :
        /\ pc[g] = "init_ret"
        /\ ~cur[g].lc.initialized
        /\ IsInitialized(clients, cur[g].name)

(* C26 as stated, for the failing UseClient calls: when a UseClient call
   returns an error, the entry registered under its name is the one the
   call looked up, with the same stored value and initialized flag. *)
C26_FailingUseLeavesEntry ==
    (ret.op = "UseClient" /\ ret.err # NoError /\ ret.lc.ok)
        => clients.m[ret.name] = ret.lc

\* The step leaves the registry as it was: the same names, stored values
\* and initialized flags, and no initializer invoked.
RegistryUnchanged ==
    /\ clients'.m = clients.m
    /\ once' = once
    /\ runs' = runs

(* C26, amended: CountClients, ListClientNames, the lookup step of every
   UseClient call (so every call that fails with the expected-pointer,
   not-found or cannot-initialize error) and every step of a UseClient call
   on an entry that is already initialized leave the registry unchanged.
   A UseClient call on an uninitialized lazy entry invokes the initializer,
   which may register a value, also when the call then fails. *)
C26_ReadOnlyCalls ==
    [][/\ ret'.op \in {"CountClients", "ListClientNames"} => RegistryUnchanged
       /\ \A g \in Goroutines :
            /\ (pc[g] = "idle"
                    /\ (pc'[g] = "do" \/ (ret'.op = "UseClient" /\ ret'.g = g)))
                => RegistryUnchanged
            /\ (pc[g] \in {"do", "refresh"} /\ cur[g].lc.initialized
                    /\ pc'[g] # pc[g])
                => (RegistryUnchanged /\ pc'[g] \in {"refresh", "idle"})]_vars

\* UseClient has returned the value of an already initialized entry while
\* the other name is registered lazily and is still uninitialized.
C26_Witness ==
    /\ ret.op = "UseClient"
    /\ ret.err = NoError
    /\ ret.lc.initialized
    /\ \E n \in Names \ {ret.name} :
        /\ clients.m[n].ok
        /\ ~clients.m[n].initialized
        /\ clients.m[n].lazyInitialize = "reg"

(* C28: UseClient with a hint that is no pointer returns the
   expected-pointer error in its first step, before the name is looked up:
   whether or not the name is registered, it invokes no initializer and
   leaves the registry unchanged. *)
C28_NonPointerRejectedFirst ==
    [][(ret'.op = "UseClient" /\ ret'.arg \in {"Int", "Str"})
        => /\ ret'.err = ErrExpectedPointer
           /\ pc[ret'.g] = "idle"
           /\ pc'[ret'.g] = "idle"
           /\ RegistryUnchanged]_vars

\* The expected-pointer error has been returned for a registered lazy name
\* whose initializer has never been invoked.
C28_Witness ==
    /\ ret.op = "UseClient"
    /\ ret.arg = "Int"
    /\ ret.err = ErrExpectedPointer
    /\ clients.m[ret.name].ok
    /\ clients.m[ret.name].lazyInitialize = "reg"
    /\ runs[clients.m[ret.name].id] = 0

(* C29: the serve goroutine never blocks on reporting its failure: it sends
   at most one error and errChan has capacity one, so whenever it is about
   to send, the channel is empty and the send can complete, also after the
   call has taken the signal branch and receives from errChan no more. *)
C29_SendNeverBlocks ==
    /\ Len(errChan) <= ChanCap
    /\ (bpc = "send" /\ ~exited) => (errChan = <<>> /\ ENABLED BgSend)

\* A failure that happened after the signal branch was taken has been sent,
\* and the call has returned without receiving it.
C29_Witness ==
    /\ "latefail" \in seen
    /\ bpc = "ended"
    /\ errChan = <<ErrServe>>
    /\ mpc = "returned"

\* Serving has ended closed normally, after the server was shut down from
\* outside, while no termination signal has arrived and nothing has failed.
ClosedWithoutSignal ==
    /\ "extclose" \in seen
    /\ bpc = "ended"
    /\ seen \cap {"signal", "servefail", "bindfail"} = {}

(* C30: when the serve loop ends closed normally and no termination signal
   has been received, nothing is reported on errChan and the call does not
   return: it stays in its select, where neither branch can be taken, until
   a termination signal arrives. *)
C30_ClosedNormallyKeepsWaiting ==
    ClosedWithoutSignal
        => /\ errChan = <<>>
           /\ berr = "none"
           /\ mpc = "select"
           /\ result = "none"
           /\ ~ENABLED SelectErr
           /\ ~ENABLED SelectSig

\* The server had been serving when it was shut down from outside, and the
\* serve loop has ended with no signal received.
C30_Witness ==
    /\ ClosedWithoutSignal
    /\ "serving" \in seen
    /\ mpc = "select"

(* C27: under fair scheduling, once the call has observed a termination
   signal while waiting, it eventually reaches the stopped state and
   returns, provided the shutdown hook returns. *)
C27_SignalLeadsToReturn ==
    ("shutdown" \in seen) ~> (mpc = "returned")

====
